---- MODULE Spec2Model ----
(***************************************************************************)
(* Verification model of laureonmrp: the location_configuration module     *)
(* (LocationType and Location trees, their forms and views) and the        *)
(* generic delete view of core.                                            *)
(*                                                                         *)
(* Encoding                                                                *)
(*   - an optional value (a nullable foreign key, a nullable integer) is   *)
(*     a set: {} is None, {x} is the value x;                              *)
(*   - a name is a number whose order is the string order of the spelling  *)
(*     it stands for: 0 is the empty string, 1 is "A", 2 is "a", 3 is "b", *)
(*     4 is "c", ...; only 1 and 2 differ by case alone;                   *)
(*   - the form's errors are the set of the field names that carry an      *)
(*     error ("__all__" for the non-field errors).                         *)
(***************************************************************************)
EXTENDS Integers, Sequences, FiniteSets, TLC

VARIABLES
    locationTypes,   \* table LocationType: pk -> row (allowed_parents is the M2M)
    locations,       \* table Location: pk -> row
    nextTypePk,      \* last primary key the LocationType table handed out
    nextLocationPk,  \* last primary key the Location table handed out
    session,         \* request.session: the set of keys stored in it
    messages,        \* the message the last request recorded ("none" if none)
    request,         \* the last request served
    response,        \* the response to it
    result,          \* the return value of the last direct function call
    sample           \* the Sample instance under validation

vars == <<locationTypes, locations, nextTypePk, nextLocationPk, session,
          messages, request, response, result, sample>>

dbvars == <<locationTypes, locations, nextTypePk, nextLocationPk>>

(***************************************************************************)
(* Bounds of the model                                                     *)
(***************************************************************************)
MaxTypes == 2
MaxLocations == 3
MaxDim == 1
MaxGraph == 3
NumNames == 4
MaxSpaces == 3

TypePks == 1..MaxTypes
LocationPks == 1..MaxLocations
SpacePks == 1..MaxSpaces
Names == 1..NumNames
NameInputs == 0..NumNames

None == {}
Some(x) == {x}
The(opt) == CHOOSE x \in opt : TRUE

\* str.lower() / the iexact lookup: "A" and "a" are the same name ignoring case
Lower(n) == IF n = 1 THEN 2 ELSE n

\* ICON_CHOICES (a part of it); "" is the blank choice the field allows
ICON_CHOICES == {"warehouse", "room"}

(***************************************************************************)
(* models.py: relations                                                    *)
(***************************************************************************)
\* LocationType.allowed_children: the reverse side of allowed_parents
allowed_children(t, lt) == {c \in DOMAIN lt : t \in lt[c].allowed_parents}

\* Location.children: the reverse side of parent
children(l, locs) == {c \in DOMAIN locs : locs[c].parent = Some(l)}

\* LocationType.location_set: the Locations of this type
location_set(t, locs) == {l \in DOMAIN locs : locs[l].location_type = t}

\* a queryset without ordering is iterated in an order the database chooses:
\* rank is that order (a ranking of the primary keys)
RECURSIVE InOrder(_, _)
InOrder(S, rank) ==
    IF S = {} THEN <<>>
    ELSE LET x == CHOOSE y \in S : \A z \in S : rank[y] <= rank[z]
         IN <<x>> \o InOrder(S \ {x}, rank)

\* sorted(..., key=lambda t: t.name)
RECURSIVE SortedByName(_, _)
SortedByName(S, lt) ==
    IF S = {} THEN <<>>
    ELSE LET x == CHOOSE y \in S : \A z \in S : lt[y].name <= lt[z].name
         IN <<x>> \o SortedByName(S \ {x}, lt)

(***************************************************************************)
(* LocationType.get_all_descendants(self, visited): the visited set is     *)
(* shared by the whole recursion; the value is the returned set, with the  *)
(* visited set as the call leaves it and the types the call expanded.      *)
(***************************************************************************)
RECURSIVE get_all_descendants(_, _, _, _), ForEachChild(_, _, _, _)
ForEachChild_NoAdd(childSeq, acc, lt, rank) ==
    IF childSeq = <<>> THEN acc
    ELSE LET child == Head(childSeq)
             r == get_all_descendants(child, acc.visited, lt, rank)
         IN ForEachChild(Tail(childSeq),
                [descendants |-> acc.descendants \cup r.descendants,
                 visited |-> r.visited,
                 expanded |-> acc.expanded \o r.expanded], lt, rank)

\* a recursion that hands each child a copy of the visited set: what a child's
\* call visits is not seen by the calls for the next children
ForEachChild_VisitedCopied(childSeq, acc, lt, rank) ==
    IF childSeq = <<>> THEN acc
    ELSE LET child == Head(childSeq)
             r == get_all_descendants(child, acc.visited, lt, rank)
         IN ForEachChild(Tail(childSeq),
                [descendants |-> acc.descendants \cup {child} \cup r.descendants,
                 visited |-> acc.visited,
                 expanded |-> acc.expanded \o r.expanded], lt, rank)

ForEachChild(childSeq, acc, lt, rank) ==
    IF childSeq = <<>> THEN acc
    ELSE LET child == Head(childSeq)
             r == get_all_descendants(child, acc.visited, lt, rank)
         IN ForEachChild(Tail(childSeq),
                [descendants |-> acc.descendants \cup {child} \cup r.descendants,
                 visited |-> r.visited,
                 expanded |-> acc.expanded \o r.expanded], lt, rank)

get_all_descendants(self, visited, lt, rank) ==
    IF self \in visited
    THEN [descendants |-> {}, visited |-> visited, expanded |-> <<>>]
    ELSE ForEachChild(InOrder(allowed_children(self, lt), rank),
            [descendants |-> {}, visited |-> visited \cup {self},
             expanded |-> <<self>>], lt, rank)

(***************************************************************************)
(* LocationTypesTabView._get_sorted_location_types: Kahn's algorithm over  *)
(* allowed_parents, roots and children taken in name order.                *)
(***************************************************************************)
RECURSIVE DecrementChildren(_, _, _)
\* the for loop over the sorted children of the current type
DecrementChildren(childSeq, st, lt) ==
    IF childSeq = <<>> THEN st
    ELSE LET child == Head(childSeq)
             d == st.in_degree[child] - 1
         IN DecrementChildren(Tail(childSeq),
                [in_degree |-> [st.in_degree EXCEPT ![child] = d],
                 queue |-> IF d = 0 THEN Append(st.queue, child) ELSE st.queue],
                lt)

RECURSIVE KahnLoop(_, _, _, _)
KahnLoop_Lifo(queue, in_degree, sorted_list, lt) ==
    IF queue = <<>> THEN sorted_list
    ELSE LET current_id == queue[Len(queue)]
             st == DecrementChildren(
                     SortedByName(allowed_children(current_id, lt), lt),
                     [in_degree |-> in_degree, queue |-> SubSeq(queue, 1, Len(queue) - 1)], lt)
         IN KahnLoop(st.queue, st.in_degree, Append(sorted_list, current_id), lt)

\* the while loop
KahnLoop(queue, in_degree, sorted_list, lt) ==
    IF queue = <<>> THEN sorted_list
    ELSE LET current_id == Head(queue)
             st == DecrementChildren(
                     SortedByName(allowed_children(current_id, lt), lt),
                     [in_degree |-> in_degree, queue |-> Tail(queue)], lt)
         IN KahnLoop(st.queue, st.in_degree, Append(sorted_list, current_id), lt)

SeqRange(s) == {s[i] : i \in 1..Len(s)}

_get_sorted_location_types(lt) ==
    IF DOMAIN lt = {} THEN <<>>
    ELSE LET in_degree == [t \in DOMAIN lt |-> Cardinality(lt[t].allowed_parents)]
             roots == {t \in DOMAIN lt : in_degree[t] = 0}
             sorted_list == KahnLoop(SortedByName(roots, lt), in_degree, <<>>, lt)
         IN IF Len(sorted_list) # Cardinality(DOMAIN lt)
            THEN sorted_list \o SortedByName(DOMAIN lt \ SeqRange(sorted_list), lt)
            ELSE sorted_list

(***************************************************************************)
(* Users, permissions and responses                                        *)
(***************************************************************************)
AddChangePerms == {"location_configuration.add_locationtype",
                   "location_configuration.change_locationtype",
                   "location_configuration.add_location",
                   "location_configuration.change_location"}

DeleteTypePerm == "location_configuration.delete_locationtype"
DeleteLocationPerm == "location_configuration.delete_location"

Anonymous == [is_authenticated |-> FALSE, perms |-> {}]
\* a superuser of the application: every permission
Admin == [is_authenticated |-> TRUE,
          perms |-> AddChangePerms \cup {DeleteTypePerm, DeleteLocationPerm}]

\* the users a request can come from: anonymous, logged in without any
\* permission, and logged in with the add/change permissions and one of the
\* two delete permissions
Users ==
    {Anonymous,
     [is_authenticated |-> TRUE, perms |-> {}],
     [is_authenticated |-> TRUE, perms |-> AddChangePerms \cup {DeleteTypePerm}],
     [is_authenticated |-> TRUE, perms |-> AddChangePerms \cup {DeleteLocationPerm}]}

\* request.user.has_perm(perm): an anonymous user holds no permission
has_perm(user, perm) == user.is_authenticated /\ perm \in user.perms

JsonSuccess == [status |-> 200, body |-> "success", errors |-> {}, location |-> "none"]
\* a view answering an invalid form as Post-Redirect-Get would
JsonErrors_AsRedirect(errors) ==
    [status |-> 302, body |-> "none", errors |-> {}, location |-> "success_url"]
\* JsonResponse({'errors': form.errors}, status=400)
JsonErrors(errors) == [status |-> 400, body |-> "errors", errors |-> errors, location |-> "none"]
Forbidden == [status |-> 403, body |-> "forbidden", errors |-> {}, location |-> "none"]
NotFound == [status |-> 404, body |-> "not_found", errors |-> {}, location |-> "none"]
ServerError == [status |-> 500, body |-> "exception", errors |-> {}, location |-> "none"]
RedirectToLogin == [status |-> 302, body |-> "none", errors |-> {}, location |-> "login"]
RedirectToSuccessUrl == [status |-> 302, body |-> "none", errors |-> {}, location |-> "success_url"]

\* PermissionRequiredMixin.dispatch / handle_no_permission (permission_required
\* of the view): the view's post runs only on "ok"
PermissionRequired(user, perm) ==
    IF has_perm(user, perm) THEN "ok"
    ELSE IF user.is_authenticated THEN "forbidden" ELSE "login"

NoPermissionResponse(outcome) ==
    IF outcome = "forbidden" THEN Forbidden ELSE RedirectToLogin

\* GenericFormHandlingMixin.form_invalid: the session after it (the response is
\* the redirect to the success URL); no view of the repository calls it
form_invalid(sess, form_name) ==
    sess \cup {<<"form_errors", form_name>>, <<"form_data", form_name>>}

(***************************************************************************)
(* forms.py: the LocationType forms                                        *)
(***************************************************************************)
\* the data a LocationType form is submitted with
TypeFormData(names, icons, parents, inventory, samples, grids, dims) ==
    [name : names, icon : icons, allowed_parents : parents,
     can_store_inventory : inventory, can_store_samples : samples,
     has_spaces : grids, rows : dims, columns : dims]

\* the parent types in use by the Locations of type t
\* (values_list('parent__location_type_id') of the Locations of the type that have a parent)
in_use_parent_ids(t, locs) ==
    {locs[The(locs[l].parent)].location_type :
        l \in {x \in location_set(t, locs) : locs[x].parent # None}}

\* EditLocationTypeForm._configure_parent_choices: the ids whose checkbox the
\* widget renders disabled; the field itself stays enabled
_configure_parent_choices(t, lt, locs, rank) ==
    ({t} \cup get_all_descendants(t, {}, lt, rank).descendants)
        \cup in_use_parent_ids(t, locs)

\* EditLocationTypeForm._disable_fields_if_in_use: a disabled field takes its
\* value from the instance, whatever is submitted
_disable_fields_if_in_use_Never(t, data, lt, locs) == data

_disable_fields_if_in_use(t, data, lt, locs) ==
    IF location_set(t, locs) # {}
    THEN [data EXCEPT !.has_spaces = lt[t].has_spaces,
                      !.rows = lt[t].rows,
                      !.columns = lt[t].columns]
    ELSE data

\* the fields' own validation: name is required, icon is a choice or blank,
\* every allowed parent is an existing LocationType, rows and columns are not
\* negative (PositiveIntegerField)
TypeFieldErrors(data, lt) ==
    (IF data.name = 0 THEN {"name"} ELSE {})
    \cup (IF data.icon \notin ICON_CHOICES \cup {""} THEN {"icon"} ELSE {})
    \cup (IF ~(data.allowed_parents \subseteq DOMAIN lt) THEN {"allowed_parents"} ELSE {})
    \cup (IF data.rows # None /\ The(data.rows) < 0 THEN {"rows"} ELSE {})
    \cup (IF data.columns # None /\ The(data.columns) < 0 THEN {"columns"} ELSE {})

\* EditLocationTypeForm.clean_allowed_parents (instance is the edited type)
clean_allowed_parents_AsSubmitted(t, submitted, locs) == submitted

clean_allowed_parents(t, submitted, locs) ==
    LET missing_in_use_ids == in_use_parent_ids(t, locs) \ submitted
    IN IF missing_in_use_ids # {} THEN submitted \cup missing_in_use_ids
       ELSE submitted

\* BaseLocationTypeForm._validate_name_uniqueness: TRUE when it raises
\* (instance is None for the add form, Some(pk) for the edit form)
\* a check that compares the spellings as they are
_validate_name_uniqueness_Exact(instance, data, lt) ==
    /\ data.name # 0
    /\ \E o \in DOMAIN lt \ instance : lt[o].name = data.name

_validate_name_uniqueness(instance, data, lt) ==
    /\ data.name # 0
    /\ \E o \in DOMAIN lt \ instance : Lower(lt[o].name) = Lower(data.name)

\* cleaned_data.get(field) of rows and columns: a value its field refused is
\* not in cleaned_data
CleanedDim(dim) == IF dim # None /\ The(dim) < 0 THEN None ELSE dim

\* a check that asks for a value and takes zero for one
_validate_grid_fields_NoneOnly(data) ==
    IF data.has_spaces
    THEN (IF CleanedDim(data.rows) = None THEN {"rows"} ELSE {})
         \cup (IF CleanedDim(data.columns) = None THEN {"columns"} ELSE {})
    ELSE {}

\* BaseLocationTypeForm._validate_grid_fields: the errors it adds
_validate_grid_fields(data) ==
    IF data.has_spaces
    THEN (IF CleanedDim(data.rows) = None \/ CleanedDim(data.rows) = Some(0)
          THEN {"rows"} ELSE {})
         \cup (IF CleanedDim(data.columns) = None \/ CleanedDim(data.columns) = Some(0)
               THEN {"columns"} ELSE {})
    ELSE {}

\* BaseLocationTypeForm.clean: the uniqueness error is raised, so the grid
\* check does not run after it
TypeFormClean(instance, data, lt) ==
    IF _validate_name_uniqueness(instance, data, lt) THEN {"__all__"}
    ELSE _validate_grid_fields(data)

\* the model's unique=True on name, checked by the ModelForm after clean()
TypeValidateUnique(instance, data, lt) ==
    IF data.name # 0 /\ \E o \in DOMAIN lt \ instance : lt[o].name = data.name
    THEN {"name"} ELSE {}

\* form.errors of a LocationType form over the data its fields see
TypeFormErrors(instance, data, lt) ==
    TypeFieldErrors(data, lt) \cup TypeFormClean(instance, data, lt)
        \cup TypeValidateUnique(instance, data, lt)

\* the row form.save() writes
TypeRow(data, parents) ==
    [name |-> data.name, icon |-> data.icon, allowed_parents |-> parents,
     can_store_inventory |-> data.can_store_inventory,
     can_store_samples |-> data.can_store_samples,
     has_spaces |-> data.has_spaces, rows |-> data.rows, columns |-> data.columns]

Req(view, user, pk, data) == [view |-> view, user |-> user, pk |-> pk, data |-> data]

(***************************************************************************)
(* views.py: AddLocationTypeView.post                                      *)
(***************************************************************************)
AddLocationTypeView(user, data) ==
    LET access == PermissionRequired(user, "location_configuration.add_locationtype")
        errors == TypeFormErrors(None, data, locationTypes)
        pk == nextTypePk + 1
    IN /\ request' = Req("add_location_type", user, None, data)
       /\ messages' = "none"
       /\ UNCHANGED <<locations, nextLocationPk, session, result, sample>>
       /\ IF access # "ok"
          THEN /\ response' = NoPermissionResponse(access)
               /\ UNCHANGED <<locationTypes, nextTypePk>>
          ELSE IF errors # {}
          THEN /\ response' = JsonErrors(errors)
               /\ UNCHANGED <<locationTypes, nextTypePk>>
          ELSE /\ pk <= MaxTypes
               /\ locationTypes' = [t \in DOMAIN locationTypes \cup {pk} |->
                     IF t = pk THEN TypeRow(data, data.allowed_parents)
                     ELSE locationTypes[t]]
               /\ nextTypePk' = pk
               /\ response' = JsonSuccess

(***************************************************************************)
(* views.py: EditLocationTypeView.post                                     *)
(***************************************************************************)
EditLocationTypeView(user, pk, submitted) ==
    LET access == PermissionRequired(user, "location_configuration.change_locationtype")
    IN /\ request' = Req("edit_location_type", user, Some(pk), submitted)
       /\ messages' = "none"
       /\ UNCHANGED <<locations, nextTypePk, nextLocationPk, session, result, sample>>
       /\ IF access # "ok"
          THEN /\ response' = NoPermissionResponse(access)
               /\ UNCHANGED locationTypes
          ELSE IF pk \notin DOMAIN locationTypes
          THEN /\ response' = NotFound
               /\ UNCHANGED locationTypes
          ELSE LET data == _disable_fields_if_in_use(pk, submitted, locationTypes, locations)
                   errors == TypeFormErrors(Some(pk), data, locationTypes)
                   parents == clean_allowed_parents(pk, data.allowed_parents, locations)
               IN IF errors # {}
                  THEN /\ response' = JsonErrors(errors)
                       /\ UNCHANGED locationTypes
                  ELSE /\ locationTypes' =
                            [locationTypes EXCEPT ![pk] = TypeRow(data, parents)]
                       /\ response' = JsonSuccess

(***************************************************************************)
(* models.py: Location.clean                                               *)
(***************************************************************************)
\* Location._validate_parent_type: TRUE when it raises
_validate_parent_type_NoCheck(parent, location_type, lt, locs) == FALSE

_validate_parent_type(parent, location_type, lt, locs) ==
    /\ parent # None
    /\ LET allowed_parent_types == lt[location_type].allowed_parents
       IN /\ allowed_parent_types # {}
          /\ locs[The(parent)].location_type \notin allowed_parent_types

\* Location._validate_no_circular_dependency, the while loop: "ok" when it
\* reaches a Location without parent, "circular" when it raises, "hang" when
\* it never ends (it has walked more Locations than there are, so it is on a
\* cycle that does not hold self)
RECURSIVE AncestorWalk(_, _, _, _)
AncestorWalk(ancestor, selfPk, locs, steps) ==
    IF ancestor = None THEN "ok"
    ELSE IF ancestor = selfPk THEN "circular"
    ELSE IF steps > Cardinality(DOMAIN locs) THEN "hang"
    ELSE AncestorWalk(locs[The(ancestor)].parent, selfPk, locs, steps + 1)

\* a check that looks at the parent alone
_validate_no_circular_dependency_ParentOnly(parent, selfPk, locs) ==
    IF parent # None /\ parent = selfPk THEN "circular" ELSE "ok"

_validate_no_circular_dependency(parent, selfPk, locs) ==
    AncestorWalk(parent, selfPk, locs, 0)

\* Location.clean: "ok", "invalid" (a ValidationError) or "hang"
LocationClean(selfPk, parent, location_type, lt, locs) ==
    IF _validate_parent_type(parent, location_type, lt, locs) THEN "invalid"
    ELSE LET walk == _validate_no_circular_dependency(parent, selfPk, locs)
         IN IF walk = "circular" THEN "invalid" ELSE walk

(***************************************************************************)
(* forms.py: the Location forms                                            *)
(***************************************************************************)
\* the data a Location form is submitted with
LocationFormData(names, types, parents) ==
    [name : names, location_type : types, parent : parents]

\* an optional value of S
Optional(S) == {None} \cup {Some(x) : x \in S}

\* BaseLocationForm.clean_name, after the field's own check (name is
\* required): TRUE when the name is refused
clean_name_Exact(instance, name, locs) ==
    \/ name = 0
    \/ \E o \in DOMAIN locs \ instance : locs[o].name = name

clean_name(instance, name, locs) ==
    \/ name = 0
    \/ \E o \in DOMAIN locs \ instance : Lower(locs[o].name) = Lower(name)

\* LocationType.objects.filter(allowed_parents__isnull=True)
TopLevelTypes(lt) == {t \in DOMAIN lt : lt[t].allowed_parents = {}}

\* the location_type field: required, and a member of the field's queryset
LocationTypeFieldError(value, queryset) ==
    value = None \/ The(value) \notin queryset

LocationRow(name, location_type, parent) ==
    [name |-> name, location_type |-> location_type, parent |-> parent]

\* form.save() of a new Location
CreateLocation(row) ==
    LET pk == nextLocationPk + 1
    IN /\ pk <= MaxLocations
       /\ locations' = [l \in DOMAIN locations \cup {pk} |->
                            IF l = pk THEN row ELSE locations[l]]
       /\ nextLocationPk' = pk

\* what form.is_valid() comes to: raised is "none" when it returns (the form
\* is valid when errors is empty), "exception" when an exception that is no
\* ValidationError leaves it, "hang" when it never returns
Validated(errors) == [raised |-> "none", errors |-> errors]
Raised(what) == [raised |-> what, errors |-> {}]

\* AddTopLevelLocationForm: fields name and location_type
AddTopLevelLocationForm(data, lt, locs) ==
    Validated(
        (IF clean_name(None, data.name, locs) THEN {"name"} ELSE {})
        \cup (IF LocationTypeFieldError(data.location_type, TopLevelTypes(lt))
              THEN {"location_type"} ELSE {}))

\* AddChildLocationForm with initial parent data.parent (an existing Location)
AddChildLocationForm(data, lt, locs) ==
    LET parent == locs[The(data.parent)]
        queryset == allowed_children(parent.location_type, lt)
    IN IF LocationTypeFieldError(data.location_type, queryset)
       THEN \* Location.clean reads self.location_type, which the new instance
            \* does not have: RelatedObjectDoesNotExist
            Raised("exception")
       ELSE LET clean == LocationClean(None, data.parent, The(data.location_type), lt, locs)
            IN IF clean = "hang" THEN Raised("hang")
               ELSE Validated(
                      (IF clean_name(None, data.name, locs) THEN {"name"} ELSE {})
                      \cup (IF clean = "invalid" THEN {"__all__"} ELSE {}))

\* EditLocationForm.__init__ and clean_location_type: the value the
\* location_type field is cleaned from (the instance's when the field is
\* disabled because the Location has children)
EditLocationTypeValue_AsSubmitted(pk, data, locs) == data.location_type

EditLocationTypeValue(pk, data, locs) ==
    IF children(pk, locs) # {} THEN Some(locs[pk].location_type)
    ELSE data.location_type

\* EditLocationForm.__init__: the queryset of location_type
EditLocationTypeQueryset(pk, lt, locs) ==
    IF locs[pk].parent # None
    THEN allowed_children(locs[The(locs[pk].parent)].location_type, lt)
    ELSE TopLevelTypes(lt)

\* EditLocationForm.__init__: the form of a top-level Location has no parent
\* field; the field of a child Location is hidden, not disabled, and takes the
\* submitted value
EditLocationHasParentField(pk, locs) == locs[pk].parent # None

\* the row construct_instance builds from the cleaned fields of the edit form
\* (a field that failed keeps the instance's value)
EditLocationInstance(pk, data, lt, locs) ==
    LET typeValue == EditLocationTypeValue(pk, data, locs)
        typeError == LocationTypeFieldError(typeValue, EditLocationTypeQueryset(pk, lt, locs))
        parentError == /\ EditLocationHasParentField(pk, locs)
                       /\ data.parent # None
                       /\ The(data.parent) \notin DOMAIN locs
    IN LocationRow(data.name,
                   IF typeError THEN locs[pk].location_type ELSE The(typeValue),
                   IF EditLocationHasParentField(pk, locs) /\ ~parentError
                   THEN data.parent ELSE locs[pk].parent)

\* EditLocationForm bound to the existing Location pk
EditLocationForm(pk, data, lt, locs) ==
    LET typeValue == EditLocationTypeValue(pk, data, locs)
        typeError == LocationTypeFieldError(typeValue, EditLocationTypeQueryset(pk, lt, locs))
        parentError == /\ EditLocationHasParentField(pk, locs)
                       /\ data.parent # None
                       /\ The(data.parent) \notin DOMAIN locs
        instance == EditLocationInstance(pk, data, lt, locs)
        clean == LocationClean(Some(pk), instance.parent, instance.location_type, lt, locs)
    IN IF clean = "hang" THEN Raised("hang")
       ELSE Validated(
              (IF clean_name(Some(pk), data.name, locs) THEN {"name"} ELSE {})
              \cup (IF typeError THEN {"location_type"} ELSE {})
              \cup (IF parentError THEN {"parent"} ELSE {})
              \cup (IF clean = "invalid" THEN {"__all__"} ELSE {}))

(***************************************************************************)
(* views.py: AddLocationView.post, the top-level form (locations/add/)     *)
(***************************************************************************)
AddTopLevelLocation(user, data) ==
    LET access == PermissionRequired(user, "location_configuration.add_location")
        form == AddTopLevelLocationForm(data, locationTypes, locations)
    IN /\ request' = Req("add_location", user, None, data)
       /\ messages' = "none"
       /\ UNCHANGED <<locationTypes, nextTypePk, session, result, sample>>
       /\ IF access # "ok"
          THEN /\ response' = NoPermissionResponse(access)
               /\ UNCHANGED <<locations, nextLocationPk>>
          ELSE IF form.errors # {}
          THEN /\ response' = JsonErrors(form.errors)
               /\ UNCHANGED <<locations, nextLocationPk>>
          ELSE \* the form has no parent field: the new Location has none
               /\ CreateLocation(LocationRow(data.name, The(data.location_type), None))
               /\ response' = JsonSuccess

(***************************************************************************)
(* views.py: AddLocationView.post, the child form (locations/add-child/)   *)
(***************************************************************************)
AddChildLocation(user, data) ==
    LET access == PermissionRequired(user, "location_configuration.add_location")
    IN /\ request' = Req("add_child_location", user, None, data)
       /\ messages' = "none"
       /\ UNCHANGED <<locationTypes, nextTypePk, session, result, sample>>
       /\ IF access # "ok"
          THEN /\ response' = NoPermissionResponse(access)
               /\ UNCHANGED <<locations, nextLocationPk>>
          ELSE IF data.parent = None \/ The(data.parent) \notin DOMAIN locations
          THEN \* get_object_or_404(Location, pk=parent_id)
               /\ response' = NotFound
               /\ UNCHANGED <<locations, nextLocationPk>>
          ELSE LET form == AddChildLocationForm(data, locationTypes, locations)
               IN /\ form.raised # "hang"
                  /\ IF form.raised = "exception"
                     THEN /\ response' = ServerError
                          /\ UNCHANGED <<locations, nextLocationPk>>
                     ELSE IF form.errors # {}
                     THEN /\ response' = JsonErrors(form.errors)
                          /\ UNCHANGED <<locations, nextLocationPk>>
                     ELSE /\ CreateLocation(LocationRow(data.name,
                                The(data.location_type), data.parent))
                          /\ response' = JsonSuccess

(***************************************************************************)
(* views.py: EditLocationView.post                                         *)
(***************************************************************************)
EditLocationView(user, pk, data) ==
    LET access == PermissionRequired(user, "location_configuration.change_location")
    IN /\ request' = Req("edit_location", user, Some(pk), data)
       /\ messages' = "none"
       /\ UNCHANGED <<locationTypes, nextTypePk, nextLocationPk, session, result, sample>>
       /\ IF access # "ok"
          THEN /\ response' = NoPermissionResponse(access)
               /\ UNCHANGED locations
          ELSE IF pk \notin DOMAIN locations
          THEN /\ response' = NotFound
               /\ UNCHANGED locations
          ELSE LET form == EditLocationForm(pk, data, locationTypes, locations)
               IN /\ form.raised # "hang"
                  /\ IF form.errors # {}
                     THEN /\ response' = JsonErrors(form.errors)
                          /\ UNCHANGED locations
                     ELSE /\ locations' = [locations EXCEPT ![pk] =
                                EditLocationInstance(pk, data, locationTypes, locations)]
                          /\ response' = JsonSuccess

(***************************************************************************)
(* core/views.py: GenericDeleteView.post                                   *)
(***************************************************************************)
\* GenericDeleteView._user_has_permission
_user_has_permission_Always(user, app_label, model_name) == TRUE

\* f'{app_label}.delete_{model_name.lower()}'
DeletePermName(app_label, model_name) ==
    CASE model_name = "LocationType" -> app_label \o ".delete_locationtype"
      [] model_name = "Location" -> app_label \o ".delete_location"
      [] OTHER -> app_label \o ".delete_nosuchmodel"

_user_has_permission(user, app_label, model_name) ==
    has_perm(user, DeletePermName(app_label, model_name))

\* on_delete=CASCADE of Location.parent: the Locations deleted with the set S
RECURSIVE Cascade(_, _)
Cascade(S, locs) ==
    LET more == S \cup {c \in DOMAIN locs : locs[c].parent # None /\ The(locs[c].parent) \in S}
    IN IF more = S THEN S ELSE Cascade(more, locs)

\* on_delete=PROTECT of Location.location_type: TRUE when obj.delete() raises
\* ProtectedError
ProtectedError_Never(model_name, pk, locs) == FALSE

ProtectedError(model_name, pk, locs) ==
    model_name = "LocationType" /\ location_set(pk, locs) # {}

\* GenericDeleteView._delete_object
_delete_object(model_name, pk) ==
    IF ProtectedError(model_name, pk, locations)
    THEN /\ messages' = "error"
         /\ UNCHANGED <<locationTypes, locations>>
    ELSE /\ messages' = "success"
         /\ IF model_name = "LocationType"
            THEN /\ locationTypes' =
                      [t \in DOMAIN locationTypes \ {pk} |->
                          [locationTypes[t] EXCEPT !.allowed_parents = @ \ {pk}]]
                 /\ UNCHANGED locations
            ELSE /\ locations' =
                      [l \in DOMAIN locations \ Cascade({pk}, locations) |-> locations[l]]
                 /\ UNCHANGED locationTypes

ModelNames == {"LocationType", "Location", "NoSuchModel"}

GenericDeleteView(user, model_name, pk) ==
    /\ request' = Req("generic_delete", user, Some(pk), [model_name |-> model_name])
    /\ UNCHANGED <<nextTypePk, nextLocationPk, session, result, sample>>
    /\ IF ~user.is_authenticated
       THEN \* LoginRequiredMixin
            /\ response' = RedirectToLogin
            /\ messages' = "none"
            /\ UNCHANGED <<locationTypes, locations>>
       ELSE IF model_name \notin {"LocationType", "Location"}
       THEN \* apps.get_model raises LookupError
            /\ response' = ServerError
            /\ messages' = "none"
            /\ UNCHANGED <<locationTypes, locations>>
       ELSE IF pk \notin (IF model_name = "LocationType" THEN DOMAIN locationTypes
                          ELSE DOMAIN locations)
       THEN /\ response' = NotFound
            /\ messages' = "none"
            /\ UNCHANGED <<locationTypes, locations>>
       ELSE IF ~_user_has_permission(user, "location_configuration", model_name)
       THEN /\ response' = Forbidden
            /\ messages' = "none"
            /\ UNCHANGED <<locationTypes, locations>>
       ELSE /\ _delete_object(model_name, pk)
            /\ response' = RedirectToSuccessUrl

(***************************************************************************)
(* The pages of the modules: five function views behind the decorator      *)
(* permission_required(perm, raise_exception=True) and the two tabs of     *)
(* location_configuration behind PermissionRequiredMixin.                  *)
(***************************************************************************)
FunctionPages == {"administration_page", "inventory_control_page",
                  "sample_control_page", "shop_floor_page",
                  "operations_management_page"}
TabPages == {"locations_tab", "types_tab"}
Pages == FunctionPages \cup TabPages

\* the permission each page's view names
PagePermission(page) ==
    CASE page = "administration_page" -> "administration.view_administration_page"
      [] page = "inventory_control_page" -> "inventory_control.view_inventorycontrol_page"
      [] page = "sample_control_page" -> "sample_control.view_samplecontrol_page"
      [] page = "shop_floor_page" -> "shop_floor.view_shopfloor_page"
      [] page = "operations_management_page" ->
            "operations_management.view_operationsmanagement_page"
      [] OTHER -> "location_configuration.view_locationconfiguration_tab"

ViewPerms == {PagePermission(page) : page \in Pages}

\* a decorator that lets every logged-in user through
permission_required_LoginOnly(user, perm) ==
    IF user.is_authenticated THEN "ok" ELSE "forbidden"

\* the decorator permission_required(perm, raise_exception=True): the view
\* runs on "ok", PermissionDenied (403) is raised otherwise, for an anonymous
\* user too
permission_required(user, perm) ==
    IF has_perm(user, perm) THEN "ok" ELSE "forbidden"

\* render(request, '<module>/page.html', context)
PageContent(page) == [status |-> 200, body |-> page, errors |-> {}, location |-> "none"]

\* a GET of the page
PageView(user, page) ==
    LET access == IF page \in TabPages
                  THEN PermissionRequired(user, PagePermission(page))
                  ELSE permission_required(user, PagePermission(page))
    IN /\ request' = Req(page, user, None, <<>>)
       /\ response' = IF access = "ok" THEN PageContent(page)
                      ELSE NoPermissionResponse(access)
       /\ messages' = "none"
       /\ UNCHANGED <<dbvars, session, result, sample>>

(***************************************************************************)
(* sample_control/models.py: Sample.clean                                  *)
(***************************************************************************)
\* a clean that only refuses the double assignment
SampleClean_BothOnly(self) ==
    IF self.location # None /\ self.space # None THEN "both" ELSE "ok"

\* Sample.clean: the ValidationError it raises ("both", "neither"), "ok" when
\* it returns
SampleClean(self) ==
    IF self.location # None /\ self.space # None THEN "both"
    ELSE IF self.location = None /\ self.space = None THEN "neither"
    ELSE "ok"

(***************************************************************************)
(* The application: every request it serves                                *)
(***************************************************************************)
NoRequest == Req("none", Anonymous, None, <<>>)
NoResponse == [status |-> 0, body |-> "none", errors |-> {}, location |-> "none"]
NoResult == [fn |-> "none", self |-> None, value |-> <<>>]
NoSample == [name |-> 0, location |-> None, space |-> None]

Init ==
    /\ locationTypes = <<>>
    /\ locations = <<>>
    /\ nextTypePk = 0
    /\ nextLocationPk = 0
    /\ session = {}
    /\ messages = "none"
    /\ request = NoRequest
    /\ response = NoResponse
    /\ result = NoResult
    /\ sample = NoSample

\* the name the pk-th object of a table is given where names are not the
\* subject: all different, also ignoring case
FreshName(pk) == pk + 1

\* the submissions for the object pk of a table (S its form data): every one
\* when the object exists, one when it does not (the answer is 404 whatever
\* the data)
ForObject(pk, table, S) ==
    IF pk \in DOMAIN table THEN S ELSE {CHOOSE d \in S : TRUE}

(***************************************************************************)
(* Spec: the two hierarchies. An administrator adds, edits and deletes     *)
(* LocationTypes and Locations with every set of allowed parents, every    *)
(* location type and every parent; names are fresh, the grid is left off.  *)
(***************************************************************************)
HierarchyTypeData(pk) ==
    TypeFormData({FreshName(pk)}, {""}, SUBSET TypePks, {FALSE}, {FALSE}, {FALSE}, {None})

HierarchyLocationData(pk) ==
    LocationFormData({FreshName(pk)}, {Some(t) : t \in TypePks}, Optional(LocationPks))

\* the top-level form has no parent field: submitted without a parent and
\* with one
HierarchyTopLevelData(pk) ==
    LocationFormData({FreshName(pk)}, {Some(t) : t \in TypePks}, {None, Some(1)})

Next ==
    \/ \E data \in HierarchyTypeData(nextTypePk + 1) : AddLocationTypeView(Admin, data)
    \/ \E pk \in TypePks :
         \E data \in ForObject(pk, locationTypes, HierarchyTypeData(pk)) :
            EditLocationTypeView(Admin, pk, data)
    \/ \E data \in HierarchyTopLevelData(nextLocationPk + 1) :
            AddTopLevelLocation(Admin, data)
    \/ \E data \in HierarchyLocationData(nextLocationPk + 1) :
            AddChildLocation(Admin, data)
    \/ \E pk \in LocationPks :
         \E data \in ForObject(pk, locations, HierarchyLocationData(pk)) :
            EditLocationView(Admin, pk, data)
    \/ \E model_name \in {"LocationType", "Location"}, pk \in TypePks \cup LocationPks :
            GenericDeleteView(Admin, model_name, pk)

Spec == Init /\ [][Next]_vars

(***************************************************************************)
(* SpecGrid: the fields of one LocationType. An administrator adds the     *)
(* first type, edits it with every name, icon, inventory flag and grid,    *)
(* puts one Location of that type in place and deletes it again.           *)
(***************************************************************************)
GridDims == Optional(0..MaxDim)

GridAddData ==
    TypeFormData({FreshName(1)}, {""}, {{}}, {FALSE}, {FALSE}, BOOLEAN, GridDims)

GridEditData ==
    TypeFormData({FreshName(1), FreshName(2)}, {"", "room"}, {{}}, BOOLEAN, {FALSE},
                 BOOLEAN, GridDims)

NextGrid ==
    \/ /\ nextTypePk = 0
       /\ \E data \in GridAddData : AddLocationTypeView(Admin, data)
    \/ \E data \in GridEditData : EditLocationTypeView(Admin, 1, data)
    \/ /\ nextLocationPk = 0
       /\ \E data \in LocationFormData({FreshName(1)}, {Some(1)}, {None}) :
            AddTopLevelLocation(Admin, data)
    \/ GenericDeleteView(Admin, "Location", 1)

SpecGrid == Init /\ [][NextGrid]_vars

(***************************************************************************)
(* SpecAccess: who may delete. An administrator builds LocationTypes and   *)
(* Locations; every user asks the generic delete view for every object.    *)
(***************************************************************************)
AccessTypeData(pk) ==
    TypeFormData({FreshName(pk)}, {""}, {{}, {1}}, {FALSE}, {FALSE}, {FALSE}, {None})

NextAccess ==
    \/ \E data \in AccessTypeData(nextTypePk + 1) : AddLocationTypeView(Admin, data)
    \/ \E data \in LocationFormData({FreshName(nextLocationPk + 1)},
                        {Some(t) : t \in TypePks}, {None}) :
            AddTopLevelLocation(Admin, data)
    \/ \E data \in LocationFormData({FreshName(nextLocationPk + 1)},
                        {Some(t) : t \in TypePks}, {Some(l) : l \in LocationPks}) :
            AddChildLocation(Admin, data)
    \/ \E user \in Users, model_name \in ModelNames, pk \in TypePks \cup LocationPks :
            GenericDeleteView(user, model_name, pk)

SpecAccess == Init /\ [][NextAccess]_vars

(***************************************************************************)
(* SpecFn: the two graph functions, called on every allowed-parents graph  *)
(* over up to MaxGraph LocationTypes (cycles and self-loops included: the  *)
(* edit form lets every such graph be built), names rising or falling with *)
(* the primary key.                                                        *)
(***************************************************************************)
GraphRow(name, parents) ==
    TypeRow([name |-> name, icon |-> "", can_store_inventory |-> FALSE,
             can_store_samples |-> FALSE, has_spaces |-> FALSE,
             rows |-> None, columns |-> None], parents)

Graphs(n) ==
    {[t \in 1..n |-> GraphRow(IF rising THEN FreshName(t) ELSE FreshName(n + 1 - t),
                              parents[t])] :
        parents \in [1..n -> SUBSET (1..n)], rising \in BOOLEAN}

\* the orders a queryset can come in: by primary key, rising or falling
Ranks(S) == {[t \in S |-> t], [t \in S |-> 0 - t]}

InitFn ==
    /\ \E n \in 1..MaxGraph :
         /\ locationTypes \in Graphs(n)
         /\ nextTypePk = n
    /\ locations = <<>>
    /\ nextLocationPk = 0
    /\ session = {}
    /\ messages = "none"
    /\ request = NoRequest
    /\ response = NoResponse
    /\ result = NoResult
    /\ sample = NoSample

\* type.get_all_descendants(), no visited argument
CallGetAllDescendants(self, rank) ==
    /\ result' = [fn |-> "get_all_descendants", self |-> Some(self),
                  value |-> get_all_descendants(self, {}, locationTypes, rank)]
    /\ UNCHANGED <<dbvars, session, messages, request, response, sample>>

\* view._get_sorted_location_types()
CallGetSortedLocationTypes ==
    /\ result' = [fn |-> "_get_sorted_location_types", self |-> None,
                  value |-> _get_sorted_location_types(locationTypes)]
    /\ UNCHANGED <<dbvars, session, messages, request, response, sample>>

NextFn ==
    \/ \E self \in DOMAIN locationTypes, rank \in Ranks(DOMAIN locationTypes) :
            CallGetAllDescendants(self, rank)
    \/ CallGetSortedLocationTypes

SpecFn == InitFn /\ [][NextFn]_vars

(***************************************************************************)
(* SpecPages: who sees a page. Every user, anonymous or logged in with any *)
(* set of the view permissions, asks for every page.                       *)
(***************************************************************************)
PageUsers ==
    {Anonymous} \cup {[is_authenticated |-> TRUE, perms |-> P] : P \in SUBSET ViewPerms}

NextPages == \E user \in PageUsers, page \in Pages : PageView(user, page)

SpecPages == Init /\ [][NextPages]_vars

(***************************************************************************)
(* SpecTypeNames: the names of the LocationTypes. An administrator adds,   *)
(* renames and deletes LocationTypes with every name, the empty one and    *)
(* the two spellings that differ by case included.                         *)
(***************************************************************************)
TypeNameData ==
    TypeFormData(NameInputs, {"", "room"}, {{}}, {FALSE}, {FALSE}, {FALSE}, {None})

NextTypeNames ==
    \/ \E data \in TypeNameData : AddLocationTypeView(Admin, data)
    \/ \E pk \in TypePks :
         \E data \in ForObject(pk, locationTypes, TypeNameData) :
            EditLocationTypeView(Admin, pk, data)
    \/ \E pk \in TypePks : GenericDeleteView(Admin, "LocationType", pk)

SpecTypeNames == Init /\ [][NextTypeNames]_vars

(***************************************************************************)
(* SpecLocationNames: the names of the Locations. An administrator sets up *)
(* a top-level LocationType and a LocationType below it, then adds,        *)
(* renames and deletes Locations with every name, the empty one and the    *)
(* two spellings that differ by case included.                             *)
(***************************************************************************)
NamedTypeData(pk) ==
    TypeFormData({FreshName(pk)}, {""}, {IF pk = 1 THEN {} ELSE {1}},
                 {FALSE}, {FALSE}, {FALSE}, {None})

\* the edit form of the Location pk, submitted with every name and type and
\* with the parent it has
NamedEditData(pk) ==
    LocationFormData(NameInputs, {Some(t) : t \in TypePks},
                     {IF pk \in DOMAIN locations THEN locations[pk].parent ELSE None})

NextLocationNames ==
    \/ \E data \in NamedTypeData(nextTypePk + 1) : AddLocationTypeView(Admin, data)
    \/ \E data \in LocationFormData(NameInputs, {Some(t) : t \in TypePks}, {None}) :
            AddTopLevelLocation(Admin, data)
    \/ \E data \in LocationFormData(NameInputs, {Some(t) : t \in TypePks}, {Some(1)}) :
            AddChildLocation(Admin, data)
    \/ \E pk \in LocationPks :
         \E data \in ForObject(pk, locations, NamedEditData(pk)) :
            EditLocationView(Admin, pk, data)
    \/ \E pk \in LocationPks : GenericDeleteView(Admin, "Location", pk)

SpecLocationNames == Init /\ [][NextLocationNames]_vars

(***************************************************************************)
(* SpecGridRules: the grid of a LocationType. An administrator adds a      *)
(* first LocationType without grid, then adds and edits a second one with  *)
(* every grid (rows and columns missing, negative, zero or positive), under *)
(* a name of its own or the first type's name, and puts a Location of the  *)
(* second type in place and deletes it again.                              *)
(***************************************************************************)
RuleDims == Optional((0 - 1)..MaxDim)

RuleTypeData(pk) ==
    IF pk = 1
    THEN TypeFormData({FreshName(1)}, {""}, {{}}, {FALSE}, {FALSE}, {FALSE}, {None})
    ELSE TypeFormData({FreshName(1), FreshName(2)}, {""}, {{}}, {FALSE}, {FALSE},
                      BOOLEAN, RuleDims)

NextGridRules ==
    \/ /\ nextTypePk < 2
       /\ \E data \in RuleTypeData(nextTypePk + 1) : AddLocationTypeView(Admin, data)
    \/ \E data \in ForObject(2, locationTypes, RuleTypeData(2)) :
            EditLocationTypeView(Admin, 2, data)
    \/ /\ nextLocationPk = 0
       /\ \E data \in LocationFormData({FreshName(1)}, {Some(2)}, {None}) :
            AddTopLevelLocation(Admin, data)
    \/ GenericDeleteView(Admin, "Location", 1)

SpecGridRules == Init /\ [][NextGridRules]_vars

(***************************************************************************)
(* SpecSample: Sample.clean, called on every Sample instance: a name, a    *)
(* direct Location or none, a LocationSpace or none.                       *)
(***************************************************************************)
Samples ==
    [name : NameInputs, location : Optional(LocationPks), space : Optional(SpacePks)]

InitSample ==
    /\ sample \in Samples
    /\ locationTypes = <<>>
    /\ locations = <<>>
    /\ nextTypePk = 0
    /\ nextLocationPk = 0
    /\ session = {}
    /\ messages = "none"
    /\ request = NoRequest
    /\ response = NoResponse
    /\ result = NoResult

\* sample.clean()
CallSampleClean ==
    /\ result' = [fn |-> "Sample.clean", self |-> None, value |-> SampleClean(sample)]
    /\ UNCHANGED <<dbvars, session, messages, request, response, sample>>

NextSample == CallSampleClean

SpecSample == InitSample /\ [][NextSample]_vars

(***************************************************************************)
(* Graph notions the properties are stated with                            *)
(***************************************************************************)
\* the Locations reached from the set S by following parent, S included
RECURSIVE UpFrom(_, _)
UpFrom(S, locs) ==
    LET more == S \cup {p \in DOMAIN locs : \E x \in S : x \in DOMAIN locs /\ locs[x].parent = Some(p)}
    IN IF more = S THEN S ELSE UpFrom(more, locs)

\* the ancestors of a Location: its parent, the parent's parent, ...
LocationAncestors(l, locs) ==
    IF locs[l].parent = None THEN {} ELSE UpFrom(locs[l].parent, locs)

\* the types reached from the set S by following allowed_children, S included
RECURSIVE DownFrom(_, _)
DownFrom(S, lt) ==
    LET more == S \cup UNION {allowed_children(x, lt) : x \in S}
    IN IF more = S THEN S ELSE DownFrom(more, lt)

\* the types reachable from t by one or more allowed_children edges
ReachableTypes(t, lt) == DownFrom(allowed_children(t, lt), lt)

Accepted(view) == request.view = view /\ response = JsonSuccess

(***************************************************************************)
(* C1: after any sequence of accepted add, add-child, edit and delete      *)
(* requests, whatever parent is submitted, the parent relation over        *)
(* Locations is acyclic: no Location is its own parent or its own ancestor.*)
(***************************************************************************)
C1_LocationsAcyclic ==
    \A l \in DOMAIN locations : l \notin LocationAncestors(l, locations)

\* the cycle check has acted: an edit that asked for one of the Location's own
\* descendants (not itself) as parent, allowed by the type rule, was refused
C1_Witness ==
    /\ request.view = "edit_location"
    /\ response.status = 400
    /\ "__all__" \in response.errors
    /\ LET pk == The(request.pk)
           parent == request.data.parent
       IN /\ parent # None
          /\ parent # Some(pk)
          /\ The(parent) \in DOMAIN locations
          /\ pk \in LocationAncestors(The(parent), locations)
          /\ ~_validate_parent_type(parent, locations[pk].location_type,
                                    locationTypes, locations)

(***************************************************************************)
(* C2: after any sequence of accepted add-location-type and                *)
(* edit-location-type submissions, for every submitted set of              *)
(* allowed_parents, the allowed-parents graph is acyclic: no LocationType  *)
(* has itself or one of its descendants among its allowed parents.         *)
(***************************************************************************)
C2_AllowedParentsAcyclic ==
    \A t \in DOMAIN locationTypes :
        locationTypes[t].allowed_parents
            \cap ({t} \cup ReachableTypes(t, locationTypes)) = {}

(***************************************************************************)
(* C3: after any sequence of accepted requests, every Location that has a  *)
(* parent satisfies the type rule: the parent's LocationType is among the  *)
(* allowed_parents of the Location's own LocationType.                     *)
(***************************************************************************)
C3_TypeRule ==
    \A l \in DOMAIN locations :
        locations[l].parent # None =>
            /\ The(locations[l].parent) \in DOMAIN locations
            /\ locations[l].location_type \in DOMAIN locationTypes
            /\ locations[The(locations[l].parent)].location_type
                 \in locationTypes[locations[l].location_type].allowed_parents

\* an accepted edit moved a Location under another parent, of another type
\* than the Location's own
C3_Witness ==
    /\ Accepted("edit_location")
    /\ LET pk == The(request.pk)
       IN /\ locations[pk].parent # None
          /\ locations[pk].parent = request.data.parent
          /\ locations[The(locations[pk].parent)].location_type
                # locations[pk].location_type
          /\ Cardinality(DOMAIN locations) = MaxLocations

(***************************************************************************)
(* C4: an in-use parent relationship cannot be removed by editing a        *)
(* LocationType: after an accepted edit of type T every Location of type T *)
(* that has a parent has a parent whose type is in T.allowed_parents, even *)
(* when the submitted allowed_parents omits it; the saved set is the       *)
(* submitted set with the missing in-use parent types added back.          *)
(***************************************************************************)
C4_InUseParentsKept ==
    Accepted("edit_location_type") =>
        LET t == The(request.pk)
        IN /\ \A l \in location_set(t, locations) :
                locations[l].parent # None =>
                    locations[The(locations[l].parent)].location_type
                        \in locationTypes[t].allowed_parents
           /\ locationTypes[t].allowed_parents =
                request.data.allowed_parents \cup in_use_parent_ids(t, locations)

\* an accepted edit whose submitted allowed_parents left out a parent type in use
C4_Witness ==
    /\ Accepted("edit_location_type")
    /\ ~(in_use_parent_ids(The(request.pk), locations)
            \subseteq request.data.allowed_parents)

(***************************************************************************)
(* C5: when a LocationType is used by at least one Location, an edit of    *)
(* that type leaves has_spaces, rows and columns unchanged whatever values *)
(* are submitted for them; name, icon and the storage flags may change.    *)
(***************************************************************************)
C5_GridLockedInUse ==
    [][(/\ request'.view = "edit_location_type"
        /\ The(request'.pk) \in DOMAIN locationTypes
        /\ location_set(The(request'.pk), locations) # {})
       => LET t == The(request'.pk)
          IN /\ t \in DOMAIN locationTypes'
             /\ locationTypes'[t].has_spaces = locationTypes[t].has_spaces
             /\ locationTypes'[t].rows = locationTypes[t].rows
             /\ locationTypes'[t].columns = locationTypes[t].columns]_vars

\* an accepted edit of a type in use that submitted another grid and another
\* name, icon and inventory flag than the ones the type was created with: the
\* grid is not the submitted one, the other fields are
C5_Witness ==
    /\ Accepted("edit_location_type")
    /\ LET t == The(request.pk)
       IN /\ location_set(t, locations) # {}
          /\ request.data.has_spaces # locationTypes[t].has_spaces
          /\ request.data.rows # locationTypes[t].rows
          /\ request.data.columns # locationTypes[t].columns
          /\ locationTypes[t].name = FreshName(2)
          /\ locationTypes[t].icon = "room"
          /\ locationTypes[t].can_store_inventory
          /\ request.data.name = locationTypes[t].name
          /\ request.data.icon = locationTypes[t].icon

(***************************************************************************)
(* C6: a LocationType referenced by a Location is never deleted; a         *)
(* generic-delete request for it leaves the type and all Locations in      *)
(* place, records an error message instead of a success message and        *)
(* answers with the redirect to the success URL; every Location always     *)
(* refers to an existing LocationType.                                     *)
(***************************************************************************)
DeleteOfTypeInUse ==
    /\ request'.view = "generic_delete"
    /\ request'.data.model_name = "LocationType"
    /\ The(request'.pk) \in DOMAIN locationTypes
    /\ location_set(The(request'.pk), locations) # {}

RedirectedToSuccessUrl(resp) == resp.status = 302 /\ resp.location = "success_url"

\* the claim as stated: whoever sends the request
C6_Original ==
    [][DeleteOfTypeInUse =>
        /\ UNCHANGED <<locationTypes, locations>>
        /\ messages' = "error"
        /\ RedirectedToSuccessUrl(response')]_vars

\* as amended: the error message and the redirect are the answer to a user who
\* holds the delete permission
C6_ProtectedTypeKept ==
    /\ [](\A l \in DOMAIN locations :
            locations[l].location_type \in DOMAIN locationTypes)
    /\ [][DeleteOfTypeInUse =>
            /\ UNCHANGED <<locationTypes, locations>>
            /\ has_perm(request'.user, DeleteTypePerm) =>
                 /\ messages' = "error"
                 /\ RedirectedToSuccessUrl(response')]_vars

\* a permitted delete of a type in use has been answered
C6_Witness ==
    /\ request.view = "generic_delete"
    /\ request.data.model_name = "LocationType"
    /\ has_perm(request.user, DeleteTypePerm)
    /\ The(request.pk) \in DOMAIN locationTypes
    /\ location_set(The(request.pk), locations) # {}
    /\ messages = "error"
    /\ RedirectedToSuccessUrl(response)

(***************************************************************************)
(* C7: for every LocationType T and every allowed-children graph, acyclic  *)
(* or not, get_all_descendants called on T with no visited argument        *)
(* returns exactly the types reachable from T by one or more               *)
(* allowed_children edges.                                                 *)
(***************************************************************************)
C7_DescendantsAreReachable ==
    result.fn = "get_all_descendants" =>
        result.value.descendants = ReachableTypes(The(result.self), locationTypes)

\* a call on a type that lies on a cycle (it is its own descendant), has
\* several descendants and does not reach every type
C7_Witness ==
    /\ result.fn = "get_all_descendants"
    /\ The(result.self) \in result.value.descendants
    /\ Cardinality(result.value.descendants) >= 2
    /\ result.value.descendants # DOMAIN locationTypes

(***************************************************************************)
(* C8: when the allowed-parents graph is acyclic, the list returned by     *)
(* _get_sorted_location_types is a topological order: every LocationType   *)
(* appears (once) after each of its allowed parents, and the types with no *)
(* allowed parents come out in ascending name order among themselves.      *)
(***************************************************************************)
Position(s, x) == CHOOSE i \in 1..Len(s) : s[i] = x

C8_TopologicalOrder ==
    (result.fn = "_get_sorted_location_types" /\ C2_AllowedParentsAcyclic) =>
        LET s == result.value
            lt == locationTypes
        IN /\ Len(s) = Cardinality(DOMAIN lt)
           /\ SeqRange(s) = DOMAIN lt
           /\ \A t \in DOMAIN lt : \A p \in lt[t].allowed_parents :
                Position(s, p) < Position(s, t)
           /\ \A r1, r2 \in TopLevelTypes(lt) :
                lt[r1].name < lt[r2].name => Position(s, r1) < Position(s, r2)

\* a sorted acyclic graph of the largest size with two roots, a type below
\* both, and names that do not follow the primary keys
C8_Witness ==
    /\ result.fn = "_get_sorted_location_types"
    /\ C2_AllowedParentsAcyclic
    /\ Cardinality(DOMAIN locationTypes) = MaxGraph
    /\ Cardinality(TopLevelTypes(locationTypes)) = 2
    /\ \E t \in DOMAIN locationTypes : Cardinality(locationTypes[t].allowed_parents) = 2
    /\ locationTypes[1].name > locationTypes[2].name

(***************************************************************************)
(* C9: the generic delete view deletes an object only when the requesting  *)
(* user holds '<app_label>.delete_<model_name lowercased>': for a user     *)
(* without it the response is 403 Forbidden and no object is deleted or    *)
(* otherwise changed.                                                      *)
(***************************************************************************)
\* a delete request for an existing object by a user without the permission
DeleteWithoutPermission ==
    /\ request'.view = "generic_delete"
    /\ ~has_perm(request'.user,
                 DeletePermName("location_configuration", request'.data.model_name))
    /\ \/ /\ request'.data.model_name = "LocationType"
          /\ The(request'.pk) \in DOMAIN locationTypes
       \/ /\ request'.data.model_name = "Location"
          /\ The(request'.pk) \in DOMAIN locations

\* the claim as stated: 403 for every user without the permission
C9_Original ==
    [][DeleteWithoutPermission =>
        /\ response'.status = 403
        /\ UNCHANGED <<dbvars, session>>
        /\ messages' = "none"]_vars

\* as amended: 403 for a logged-in user, the redirect to the login page for an
\* anonymous one; nothing is deleted or changed either way
C9_DeleteNeedsPermission ==
    [][DeleteWithoutPermission =>
        /\ IF request'.user.is_authenticated
           THEN response'.status = 403
           ELSE response'.status = 302 /\ response'.location = "login"
        /\ UNCHANGED <<dbvars, session>>
        /\ messages' = "none"]_vars

\* a logged-in user who holds the delete permission of the other model has
\* been refused the delete of an existing Location
C9_Witness ==
    /\ request.view = "generic_delete"
    /\ request.data.model_name = "Location"
    /\ The(request.pk) \in DOMAIN locations
    /\ has_perm(request.user, DeleteTypePerm)
    /\ ~has_perm(request.user, DeleteLocationPerm)
    /\ response.status = 403

(***************************************************************************)
(* C10: a create or edit submission that fails validation follows          *)
(* Post-Redirect-Get: the form's errors and data are stored in the session *)
(* under form_errors_<form_name> and form_data_<form_name>, and the        *)
(* response is a redirect to the success URL rather than a response        *)
(* carrying the errors.                                                    *)
(***************************************************************************)
FormViews == {"add_location_type", "edit_location_type", "add_location",
              "add_child_location", "edit_location"}

ViewPermission(view) ==
    CASE view = "add_location_type" -> "location_configuration.add_locationtype"
      [] view = "edit_location_type" -> "location_configuration.change_locationtype"
      [] view = "edit_location" -> "location_configuration.change_location"
      [] OTHER -> "location_configuration.add_location"

\* the form of the submission req reaches validation: the user may post to
\* the view and the object the view looks up exists
ReachesForm(req, lt, locs) ==
    /\ req.view \in FormViews
    /\ has_perm(req.user, ViewPermission(req.view))
    /\ req.view = "edit_location_type" => The(req.pk) \in DOMAIN lt
    /\ req.view = "edit_location" => The(req.pk) \in DOMAIN locs
    /\ req.view = "add_child_location" =>
          req.data.parent # None /\ The(req.data.parent) \in DOMAIN locs

\* form.is_valid() of the submission req over the tables lt and locs
FormOf(req, lt, locs) ==
    CASE req.view = "add_location_type" ->
            Validated(TypeFormErrors(None, req.data, lt))
      [] req.view = "edit_location_type" ->
            Validated(TypeFormErrors(req.pk,
                _disable_fields_if_in_use(The(req.pk), req.data, lt, locs), lt))
      [] req.view = "add_location" -> AddTopLevelLocationForm(req.data, lt, locs)
      [] req.view = "add_child_location" -> AddChildLocationForm(req.data, lt, locs)
      [] req.view = "edit_location" -> EditLocationForm(The(req.pk), req.data, lt, locs)

\* the submission the step serves fails validation
FailsValidation ==
    /\ ReachesForm(request', locationTypes, locations)
    /\ FormOf(request', locationTypes, locations).raised = "none"
    /\ FormOf(request', locationTypes, locations).errors # {}

\* the claim as stated
C10_Original ==
    [][FailsValidation =>
        /\ RedirectedToSuccessUrl(response')
        /\ \E form_name \in FormViews : session' = form_invalid(session, form_name)]_vars

\* as amended: the answer is the JSON response with status 400 that carries
\* the form's errors; nothing is stored in the session or the database
C10_ErrorsAnsweredAsJson ==
    /\ [](session = {})
    /\ [][FailsValidation =>
            /\ response'.status = 400
            /\ response'.body = "errors"
            /\ response'.errors = FormOf(request', locationTypes, locations).errors
            /\ response'.location = "none"
            /\ UNCHANGED <<dbvars, session>>]_vars

\* an edit of a Location has been refused with the error of Location.clean
\* and an error of a field
C10_Witness ==
    /\ request.view = "edit_location"
    /\ response.status = 400
    /\ {"__all__", "location_type"} \subseteq response.errors

(***************************************************************************)
(* C11: each module's page (administration, inventory control, sample      *)
(* control, shop floor, operations management and both                     *)
(* location-configuration tabs) is rendered only for a user holding that   *)
(* module's view permission; a user without it never receives the page     *)
(* content.                                                                *)
(***************************************************************************)
C11_PagesNeedViewPermission ==
    request.view \in Pages =>
        IF has_perm(request.user, PagePermission(request.view))
        THEN response.status = 200 /\ response.body = request.view
        ELSE response.status \in {403, 302} /\ response.body \notin Pages

\* a logged-in user who holds the view permissions of the other modules has
\* been refused the sample control page
C11_Witness ==
    /\ request.view = "sample_control_page"
    /\ request.user.is_authenticated
    /\ request.user.perms = ViewPerms \ {"sample_control.view_samplecontrol_page"}
    /\ response.status = 403
    /\ response.body = "forbidden"

(***************************************************************************)
(* C12: after any sequence of accepted add-location-type and               *)
(* edit-location-type operations no two LocationTypes have names that are  *)
(* equal ignoring case; a submission whose name matches another type's     *)
(* name ignoring case is rejected, while re-submitting a type's own name   *)
(* on edit is accepted.                                                    *)
(***************************************************************************)
\* the step serves a LocationType form whose name is, ignoring case, the name
\* of another LocationType
TypeNameTaken ==
    /\ request'.view \in {"add_location_type", "edit_location_type"}
    /\ ReachesForm(request', locationTypes, locations)
    /\ request'.data.name # 0
    /\ \E o \in DOMAIN locationTypes \ request'.pk :
          Lower(locationTypes[o].name) = Lower(request'.data.name)

\* the step serves an edit that submits the name the type has
TypeNameKept ==
    /\ request'.view = "edit_location_type"
    /\ ReachesForm(request', locationTypes, locations)
    /\ request'.data.name = locationTypes[The(request'.pk)].name

C12_TypeNamesUniqueIgnoringCase ==
    /\ [](\A t1, t2 \in DOMAIN locationTypes :
            Lower(locationTypes[t1].name) = Lower(locationTypes[t2].name) => t1 = t2)
    /\ [][/\ TypeNameTaken =>
               /\ response'.status = 400
               /\ "__all__" \in response'.errors
               /\ UNCHANGED locationTypes
          /\ TypeNameKept =>
               /\ response'.errors \cap {"name", "__all__"} = {}
               /\ request'.data.icon \in ICON_CHOICES \cup {""} =>
                    /\ response' = JsonSuccess
                    /\ locationTypes'[The(request'.pk)].name = request'.data.name]_vars

\* two LocationTypes are in place and the rename of one to the other's name in
\* the other case has been refused
C12_Witness ==
    /\ Cardinality(DOMAIN locationTypes) = 2
    /\ request.view = "edit_location_type"
    /\ response.status = 400
    /\ \E o \in DOMAIN locationTypes \ request.pk :
          /\ locationTypes[o].name # request.data.name
          /\ Lower(locationTypes[o].name) = Lower(request.data.name)

(***************************************************************************)
(* C13: after any sequence of accepted add-location, add-child-location    *)
(* and edit-location operations no two Locations have names that are equal *)
(* ignoring case; a submission whose name matches another Location's name  *)
(* ignoring case is rejected, while keeping a Location's own name on edit  *)
(* is accepted.                                                            *)
(***************************************************************************)
\* the step serves a Location form whose name is, ignoring case, the name of
\* another Location
LocationNameTaken ==
    /\ request'.view \in {"add_location", "add_child_location", "edit_location"}
    /\ ReachesForm(request', locationTypes, locations)
    /\ request'.data.name # 0
    /\ \E o \in DOMAIN locations \ request'.pk :
          Lower(locations[o].name) = Lower(request'.data.name)

\* the step serves an edit that submits the name, the type and the parent the
\* Location has
LocationNameKept ==
    /\ request'.view = "edit_location"
    /\ ReachesForm(request', locationTypes, locations)
    /\ LET location == locations[The(request'.pk)]
       IN request'.data = [name |-> location.name,
                           location_type |-> Some(location.location_type),
                           parent |-> location.parent]

\* rejected: the errors name the field, or (add-child with a location type the
\* parent does not allow) the request ends in a server error; nothing is saved
C13_LocationNamesUniqueIgnoringCase ==
    /\ [](\A l1, l2 \in DOMAIN locations :
            Lower(locations[l1].name) = Lower(locations[l2].name) => l1 = l2)
    /\ [][/\ LocationNameTaken =>
               /\ \/ response'.status = 400 /\ "name" \in response'.errors
                  \/ /\ request'.view = "add_child_location"
                     /\ response'.status = 500
               /\ UNCHANGED locations
          /\ LocationNameKept =>
               /\ response' = JsonSuccess
               /\ locations'[The(request'.pk)].name = request'.data.name]_vars

\* three Locations are in place and the rename of a child Location to the
\* name of another in the other case has been refused
C13_Witness ==
    /\ Cardinality(DOMAIN locations) = 3
    /\ request.view = "edit_location"
    /\ locations[The(request.pk)].parent # None
    /\ response.status = 400
    /\ response.errors = {"name"}
    /\ \E o \in DOMAIN locations \ request.pk :
          /\ locations[o].name # request.data.name
          /\ Lower(locations[o].name) = Lower(request.data.name)

(***************************************************************************)
(* C14: after any sequence of accepted add and edit location-type          *)
(* operations every LocationType with has_spaces true has both rows and    *)
(* columns set to a value of at least 1; a submission with has_spaces      *)
(* checked and rows or columns missing or zero is rejected with an error   *)
(* on the missing field.                                                   *)
(***************************************************************************)
GridComplete ==
    \A t \in DOMAIN locationTypes :
        locationTypes[t].has_spaces =>
            /\ locationTypes[t].rows # None /\ The(locationTypes[t].rows) >= 1
            /\ locationTypes[t].columns # None /\ The(locationTypes[t].columns) >= 1

\* no usable value: missing, zero, or refused by the field
NoDim(dim) == dim = None \/ The(dim) <= 0

\* the step serves a LocationType form
TypeFormServed ==
    /\ request'.view \in {"add_location_type", "edit_location_type"}
    /\ ReachesForm(request', locationTypes, locations)

\* the data the form's fields are cleaned from: the submission, with the
\* stored grid when the edited type is in use
TypeFormSees ==
    IF request'.view = "edit_location_type"
    THEN _disable_fields_if_in_use(The(request'.pk), request'.data,
                                   locationTypes, locations)
    ELSE request'.data

C15_TypeLockedWithChildren ==
    [][(/\ request'.view = "edit_location"
        /\ The(request'.pk) \in DOMAIN locations
        /\ children(The(request'.pk), locations) # {})
       => /\ The(request'.pk) \in DOMAIN locations'
          /\ locations'[The(request'.pk)].location_type
                = locations[The(request'.pk)].location_type]_vars

\* an accepted edit of a Location with children that submitted another
\* location type, one the form would offer were the field not disabled
C15_Witness ==
    /\ Accepted("edit_location")
    /\ LET pk == The(request.pk)
       IN /\ children(pk, locations) # {}
          /\ request.data.location_type # None
          /\ The(request.data.location_type) # locations[pk].location_type
          /\ The(request.data.location_type)
                \in EditLocationTypeQueryset(pk, locationTypes, locations)

(***************************************************************************)
(* C16: editing an existing Location leaves its parent unchanged: after    *)
(* any accepted edit-location request the Location's parent equals its     *)
(* parent before the request, for top-level and for child Locations alike. *)
(***************************************************************************)
C16_ParentUnchanged ==
    [][(/\ request'.view = "edit_location"
        /\ The(request'.pk) \in DOMAIN locations
        /\ response' = JsonSuccess)
       => locations'[The(request'.pk)].parent = locations[The(request'.pk)].parent]_vars

(***************************************************************************)
(* C17: a Sample that passes validation is assigned to exactly one of a    *)
(* direct location or a space: Sample.clean rejects a sample with both     *)
(* location and space set and rejects a sample with neither set.           *)
(***************************************************************************)
C17_SampleInExactlyOnePlace ==
    result.fn = "Sample.clean" =>
        /\ result.value = "ok" <=> ((sample.location = None) # (sample.space = None))
        /\ (sample.location # None /\ sample.space # None) => result.value = "both"
        /\ (sample.location = None /\ sample.space = None) => result.value = "neither"

\* a Sample in a space and in no direct location has passed
C17_Witness ==
    /\ result.fn = "Sample.clean"
    /\ result.value = "ok"
    /\ sample.location = None
    /\ sample.space = Some(MaxSpaces)

(***************************************************************************)
(* C18: get_all_descendants terminates for every finite allowed-children   *)
(* graph, graphs with cycles and self-loops included: each LocationType is *)
(* expanded at most once per top-level call because of the shared visited  *)
(* set.                                                                    *)
(***************************************************************************)
\* the call has returned, and the types it expanded (looped over the children
\* of) are the type itself and its descendants, each once: at most as many
\* expansions as there are types
C18_EachTypeExpandedOnce ==
    result.fn = "get_all_descendants" =>
        LET expanded == result.value.expanded
        IN /\ \A i, j \in 1..Len(expanded) : expanded[i] = expanded[j] => i = j
           /\ Len(expanded) <= Cardinality(DOMAIN locationTypes)
           /\ expanded[1] = The(result.self)
           /\ SeqRange(expanded) = {The(result.self)} \cup result.value.descendants
           /\ result.value.visited = SeqRange(expanded)

\* a call on a type with a self-loop, in a graph of the largest size where
\* every type is expanded and one type is a child of every type, itself
\* included
C18_Witness ==
    /\ result.fn = "get_all_descendants"
    /\ The(result.self) \in locationTypes[The(result.self)].allowed_parents
    /\ Cardinality(DOMAIN locationTypes) = MaxGraph
    /\ Len(result.value.expanded) = MaxGraph
    /\ \E t \in DOMAIN locationTypes : locationTypes[t].allowed_parents = DOMAIN locationTypes

====
